---- MODULE Spec2Model ----
(***************************************************************************)
(* A model of pdf-to-chapters: the page-range resolution engine            *)
(* (pdf_utils.py, toc_utils.py) and the command line driver (cli.py).      *)
(*                                                                         *)
(* The pure functions of the program are operators that compute what the   *)
(* code computes, loop by loop.  Each specification draws the inputs of    *)
(* one component from bounded sets in its initial states and applies the   *)
(* component in its actions.                                               *)
(***************************************************************************)
EXTENDS Integers, Sequences, FiniteSets, TLC

VARIABLES
    pc,              \* position of the run
    bookmarks,       \* list of {level, title, page}         (extract_bookmarks)
    chapter_titles,  \* ordered titles handed to get_chapter_page_ranges
    toc_chapters,    \* list of {title, toc_page}             (parse_toc_with_ai)
    offset,          \* offset handed to / returned for the TOC entries
    total_pages,     \* page count of the document
    chapter_ranges,  \* list of {title, start_page, end_page} returned
    warnings,        \* titles for which a warning line was printed
    pages,           \* the document: what each physical page's text contains
    max_pages,       \* scan limit handed to extract_toc_text
    toc_text,        \* page numbers of the blocks joined into the TOC text
    toc_start_page,  \* start page returned by extract_toc_text
    offsets_found,   \* offsets recorded by calculate_page_offset
    args,            \* the command line and what it names
    exit_status,     \* exit status of the process, -1 while it runs
    calls,           \* the functions entered by the run, in order
    printed,         \* the lines that end the run, in order
    pages_read,      \* the physical pages calculate_page_offset has read
    response,        \* the reply of the external AI service
    raised,          \* the exception that left the operation, "none" if none
    operation,       \* the operation that holds the document, and its progress
    open_handles,    \* the document handles opened and not yet closed
    name,            \* the string handed to sanitize_filename
    sanitized        \* the string sanitize_filename returned

rangeVars == <<bookmarks, chapter_titles, toc_chapters, offset, total_pages,
               chapter_ranges, warnings>>

locatorVars == <<max_pages, toc_text, toc_start_page>>

cliVars == <<args, exit_status, calls, printed>>

auxVars == <<response, raised, operation, open_handles, name, sanitized>>

vars == <<pc, rangeVars, pages, locatorVars, offsets_found, cliVars, pages_read,
          auxVars>>

----------------------------------------------------------------------------
(* Bounds of the model.                                                    *)

MaxBookmarks == 2       \* bookmarks in a document
MaxTitles == 3          \* titles selected by the classifier
MaxPage == 4            \* largest page a bookmark points to
MaxTotalPages == 3      \* largest page count
MaxEntries == 3         \* TOC entries returned by the parser
MaxTocPage == 3         \* largest printed page number of a TOC entry
MaxOffset == 2          \* largest absolute offset
MaxRichPages == 1       \* pages of a document drawn from every signal count
MaxExtraPages == 2      \* pages of a document beyond the collection cap
MaxBodyPages == 3       \* pages of a document from the search floor on
MaxTocAhead == 1        \* printed page numbers past the search floor
MaxResolverEntries == 3 \* TOC entries handed to the Offset Resolver
MaxCliBookmarks == 1    \* bookmarks of a document handed to the command line
MaxCliPages == 1        \* pages of a document handed to the command line
MaxResponseLines == 2   \* lines of an AI reply that is not JSON
MaxHandlePages == 3     \* pages read while a document handle is open
MaxHandleChapters == 2  \* chapter files written while a document handle is open
MaxTail == 3            \* characters of a file name after its run of letters
MaxExtraEntries == 1    \* TOC entries after the sampled ones
MaxPastWindow == 2      \* pages of a document past the search span

SeqsUpTo(S, n) == UNION {[1..k -> S] : k \in 0..n}

Min(S) == CHOOSE x \in S : \A y \in S : x <= y

BookmarkTitles == {"A", "B"}
SelectedTitles == {"A", "B", "C"}
EntryTitles == {"1 Intro", "2 Methods"}

Bookmark(t, p) == [level |-> 1, title |-> t, page |-> p]
TocEntry(t, p) == [title |-> t, toc_page |-> p]
ChapterRange(t, s, e) == [title |-> t, start_page |-> s, end_page |-> e]

Bookmarks == {Bookmark(t, p) : t \in BookmarkTitles, p \in 0..MaxPage}
TocEntries == {TocEntry(t, p) : t \in EntryTitles, p \in (-1)..MaxTocPage}

----------------------------------------------------------------------------
(* Mutants: the code changed the way a plausible slip would change it.     *)

\* the dictionary keeps the last bookmark of a title instead of the first
RECURSIVE BuildLookup_LastWins(_, _, _)
BuildLookup_LastWins(bms, k, d) ==
    IF k > Len(bms) THEN d
    ELSE BuildLookup_LastWins(bms, k + 1,
             (bms[k].title :> bms[k]) @@ d)

\* the end page is the next chapter's start page, not the page before it
RECURSIVE NextChapterEnd_OffByOne(_, _, _, _)
NextChapterEnd_OffByOne(d, titles, j, total) ==
    IF j > Len(titles) THEN total
    ELSE IF titles[j] \in DOMAIN d THEN d[titles[j]].page
    ELSE NextChapterEnd_OffByOne(d, titles, j + 1, total)

\* only the very next title is looked at; an unresolved one ends the search
NextChapterEnd_NoSkip(d, titles, j, total) ==
    IF j > Len(titles) THEN total
    ELSE IF titles[j] \in DOMAIN d THEN d[titles[j]].page - 1
    ELSE total

\* the TOC validation forgets the upper bound, like the bookmark one
TocRangeValid_NoUpperBound(actual_start, actual_end, total) ==
    actual_start > 0 /\ actual_start <= actual_end

----------------------------------------------------------------------------
(* pdf_utils.get_chapter_page_ranges                                       *)

\* the title -> bookmark dictionary: a later bookmark never replaces an
\* earlier one of the same title
RECURSIVE BuildLookup(_, _, _)
BuildLookup(bms, k, d) ==
    IF k > Len(bms) THEN d
    ELSE BuildLookup(bms, k + 1,
             IF bms[k].title \in DOMAIN d THEN d
             ELSE d @@ (bms[k].title :> bms[k]))

title_to_bookmark(bms) == BuildLookup(bms, 1, <<>>)

\* the inner loop over chapter_titles[i + 1:], j being the next index tried
RECURSIVE NextChapterEnd(_, _, _, _)
NextChapterEnd(d, titles, j, total) ==
    IF j > Len(titles) THEN total
    ELSE IF titles[j] \in DOMAIN d THEN d[titles[j]].page - 1
    ELSE NextChapterEnd(d, titles, j + 1, total)

\* the validation that guards the append
BookmarkRangeValid(start_page, end_page) ==
    start_page > 0 /\ start_page <= end_page

\* the outer loop; acc carries chapter_ranges and the warnings printed
RECURSIVE ChapterLoop(_, _, _, _, _)
ChapterLoop(d, titles, i, total, acc) ==
    IF i > Len(titles) THEN acc
    ELSE IF titles[i] \notin DOMAIN d
    THEN ChapterLoop(d, titles, i + 1, total,
             [acc EXCEPT !.warnings = Append(@, titles[i])])
    ELSE LET start_page == d[titles[i]].page
             end_page == NextChapterEnd(d, titles, i + 1, total)
         IN  ChapterLoop(d, titles, i + 1, total,
                 IF BookmarkRangeValid(start_page, end_page)
                 THEN [acc EXCEPT !.ranges =
                          Append(@, ChapterRange(titles[i], start_page, end_page))]
                 ELSE acc)

get_chapter_page_ranges(bms, titles, total) ==
    ChapterLoop(title_to_bookmark(bms), titles, 1, total,
                [ranges |-> <<>>, warnings |-> <<>>])

----------------------------------------------------------------------------
(* toc_utils.convert_toc_to_chapter_ranges                                 *)

TocRangeValid(actual_start, actual_end, total) ==
    actual_start > 0 /\ actual_start <= actual_end /\ actual_end <= total

RECURSIVE TocLoop(_, _, _, _, _)
TocLoop(entries, off, total, i, acc) ==
    IF i > Len(entries) THEN acc
    ELSE LET actual_start == entries[i].toc_page + off
             actual_end == IF i + 1 <= Len(entries)
                           THEN entries[i + 1].toc_page + off - 1
                           ELSE total
         IN  TocLoop(entries, off, total, i + 1,
                 IF TocRangeValid(actual_start, actual_end, total)
                 THEN Append(acc, ChapterRange(entries[i].title,
                                               actual_start, actual_end))
                 ELSE acc)

convert_toc_to_chapter_ranges(entries, off, total) ==
    TocLoop(entries, off, total, 1, <<>>)

----------------------------------------------------------------------------
(* Specification of the Range Builder: one call of either entry point on   *)
(* inputs drawn from the bounded sets, and on the two inputs the           *)
(* documentation works through.                                            *)

ExampleBookmarks == <<Bookmark("A", 1), Bookmark("B", 10)>>
ExampleTitles == <<"A", "B">>
ExampleEntries == <<TocEntry("1 Intro", 1), TocEntry("2 Methods", 20)>>

InitBookmarkInput ==
    /\ pc = "bookmark_input"
    /\ \/ /\ bookmarks \in SeqsUpTo(Bookmarks, MaxBookmarks)
          /\ chapter_titles \in SeqsUpTo(SelectedTitles, MaxTitles)
          /\ total_pages \in 1..MaxTotalPages
       \/ /\ bookmarks = ExampleBookmarks
          /\ chapter_titles = ExampleTitles
          /\ total_pages = 20
    /\ toc_chapters = <<>>
    /\ offset = 0

InitTocInput ==
    /\ pc = "toc_input"
    /\ \/ /\ toc_chapters \in SeqsUpTo(TocEntries, MaxEntries)
          /\ offset \in (-MaxOffset)..MaxOffset
          /\ total_pages \in 1..MaxTotalPages
       \/ /\ toc_chapters = ExampleEntries
          /\ offset = 16
          /\ total_pages = 60
    /\ bookmarks = <<>>
    /\ chapter_titles = <<>>

CliIdle ==
    /\ args = [list_bookmarks |-> FALSE, add_bookmarks |-> FALSE,
               api_key |-> FALSE, exists |-> FALSE, is_pdf |-> FALSE]
    /\ exit_status = -1
    /\ calls = <<>>
    /\ printed = <<>>

AuxIdle ==
    /\ response = <<>>
    /\ raised = "none"
    /\ operation = <<>>
    /\ open_handles = {}
    /\ name = <<>>
    /\ sanitized = <<>>

DocumentIdle ==
    /\ pages = <<>>
    /\ max_pages = 0
    /\ toc_text = <<>>
    /\ toc_start_page = 0
    /\ offsets_found = <<>>

Init ==
    /\ InitBookmarkInput \/ InitTocInput
    /\ chapter_ranges = <<>>
    /\ warnings = <<>>
    /\ DocumentIdle
    /\ CliIdle
    /\ pages_read = {}
    /\ AuxIdle

BuildFromBookmarks ==
    /\ pc = "bookmark_input"
    /\ LET r == get_chapter_page_ranges(bookmarks, chapter_titles, total_pages)
       IN  /\ chapter_ranges' = r.ranges
           /\ warnings' = r.warnings
    /\ pc' = "bookmark_done"
    /\ UNCHANGED <<bookmarks, chapter_titles, toc_chapters, offset, total_pages>>
    /\ UNCHANGED <<pages, locatorVars, offsets_found, cliVars, pages_read, auxVars>>

BuildFromToc ==
    /\ pc = "toc_input"
    /\ chapter_ranges' = convert_toc_to_chapter_ranges(toc_chapters, offset, total_pages)
    /\ pc' = "toc_done"
    /\ UNCHANGED <<bookmarks, chapter_titles, toc_chapters, offset, total_pages,
                   warnings>>
    /\ UNCHANGED <<pages, locatorVars, offsets_found, cliVars, pages_read, auxVars>>

Next == BuildFromBookmarks \/ BuildFromToc

Spec == Init /\ [][Next]_vars

----------------------------------------------------------------------------
(* Properties of the Range Builder.                                        *)

BuilderDone == pc \in {"bookmark_done", "toc_done"}

HasBookmark(bms, t) == \E k \in 1..Len(bms) : bms[k].title = t

FirstPage(bms, t) == bms[Min({k \in 1..Len(bms) : bms[k].title = t})].page

Indices(s) == [i \in 1..Len(s) |-> i]

RemoveAt(s, k) == [i \in 1..(Len(s) - 1) |-> IF i < k THEN s[i] ELSE s[i + 1]]

\* C1: every range emitted by either entry point satisfies
\* 1 <= start_page <= end_page <= total_pages, whatever the input.
C1_RangesWithinDocument ==
    BuilderDone =>
        \A i \in 1..Len(chapter_ranges) :
            /\ 1 <= chapter_ranges[i].start_page
            /\ chapter_ranges[i].start_page <= chapter_ranges[i].end_page
            /\ chapter_ranges[i].end_page <= total_pages

\* the ranges of one call do not overlap and their start pages increase
Disjoint(r1, r2) == r1.end_page < r2.start_page \/ r2.end_page < r1.start_page

OrderedDisjoint(ranges) ==
    \A i, j \in 1..Len(ranges) :
        i < j => /\ Disjoint(ranges[i], ranges[j])
                 /\ ranges[i].start_page < ranges[j].start_page

\* C2 as claimed: for every order in which the titles / TOC entries are
\* presented, the emitted ranges do not overlap and start_page increases.
C2_NoOverlapAnyOrder == BuilderDone => OrderedDisjoint(chapter_ranges)

\* the start pages of the presented chapters, in the order presented
PresentedStarts ==
    IF pc = "bookmark_done"
    THEN LET Resolved(t) == HasBookmark(bookmarks, t)
             ts == SelectSeq(chapter_titles, Resolved)
         IN  [i \in 1..Len(ts) |-> FirstPage(bookmarks, ts[i])]
    ELSE [i \in 1..Len(toc_chapters) |-> toc_chapters[i].toc_page]

InChapterOrder ==
    \A i, j \in 1..Len(PresentedStarts) :
        i < j => PresentedStarts[i] <= PresentedStarts[j]

\* C2 amended: when the chapters are presented in chapter order (their start
\* pages do not decrease along the list), the emitted ranges do not overlap
\* and start_page increases.
C2_NoOverlapInChapterOrder ==
    (BuilderDone /\ InChapterOrder) => OrderedDisjoint(chapter_ranges)

C2_Witness ==
    /\ pc = "bookmark_done"
    /\ InChapterOrder
    /\ Len(chapter_ranges) = 2
    /\ Len(bookmarks) = 2
    /\ chapter_ranges[1].end_page + 1 = chapter_ranges[2].start_page

\* the reference builder for bookmarks
RefBookmarkEnd(bms, titles, i, total) ==
    LET later == {j \in (i + 1)..Len(titles) : HasBookmark(bms, titles[j])}
    IN  IF later = {} THEN total
        ELSE FirstPage(bms, titles[Min(later)]) - 1

RefBookmarkRanges(bms, titles, total) ==
    LET Emitted(i) ==
            /\ HasBookmark(bms, titles[i])
            /\ 0 < FirstPage(bms, titles[i])
            /\ FirstPage(bms, titles[i]) <= RefBookmarkEnd(bms, titles, i, total)
        kept == SelectSeq(Indices(titles), Emitted)
    IN  [n \in 1..Len(kept) |->
            ChapterRange(titles[kept[n]], FirstPage(bms, titles[kept[n]]),
                         RefBookmarkEnd(bms, titles, kept[n], total))]

\* C3: get_chapter_page_ranges equals the reference builder (first bookmark
\* of a title gives the start, the next later resolved title gives the end,
\* emitted in input order exactly when 0 < start <= end), and bookmarks
\* [A@1, B@10] with 20 pages and titles [A, B] give [{A,1,9},{B,10,20}].
C3_BookmarkBuilderIsReference ==
    pc = "bookmark_done" =>
        /\ chapter_ranges = RefBookmarkRanges(bookmarks, chapter_titles, total_pages)
        /\ (bookmarks = ExampleBookmarks /\ chapter_titles = ExampleTitles
            /\ total_pages = 20)
           => chapter_ranges = <<ChapterRange("A", 1, 9), ChapterRange("B", 10, 20)>>

C3_Witness ==
    /\ pc = "bookmark_done"
    /\ Len(bookmarks) = 2
    /\ bookmarks[1].title = bookmarks[2].title
    /\ bookmarks[1].page # bookmarks[2].page
    /\ Len(chapter_ranges) = 1
    /\ chapter_ranges[1].start_page = bookmarks[1].page

\* the reference builder for TOC entries
RefTocStart(entries, off, i) == entries[i].toc_page + off

RefTocEnd(entries, off, total, i) ==
    IF i < Len(entries) THEN RefTocStart(entries, off, i + 1) - 1 ELSE total

RefTocRanges(entries, off, total) ==
    LET Emitted(i) ==
            /\ 0 < RefTocStart(entries, off, i)
            /\ RefTocStart(entries, off, i) <= RefTocEnd(entries, off, total, i)
            /\ RefTocEnd(entries, off, total, i) <= total
        kept == SelectSeq(Indices(entries), Emitted)
    IN  [n \in 1..Len(kept) |->
            ChapterRange(entries[kept[n]].title, RefTocStart(entries, off, kept[n]),
                         RefTocEnd(entries, off, total, kept[n]))]

\* C4: convert_toc_to_chapter_ranges equals the reference builder (start =
\* toc_page + offset, end = next entry's start - 1 or total_pages, emitted in
\* input order exactly when 0 < start <= end <= total_pages), and entries
\* [("1 Intro",1),("2 Methods",20)] with offset 16 and 60 pages give
\* [{"1 Intro",17,35},{"2 Methods",36,60}].
C4_TocBuilderIsReference ==
    pc = "toc_done" =>
        /\ chapter_ranges = RefTocRanges(toc_chapters, offset, total_pages)
        /\ (toc_chapters = ExampleEntries /\ offset = 16 /\ total_pages = 60)
           => chapter_ranges = <<ChapterRange("1 Intro", 17, 35),
                                 ChapterRange("2 Methods", 36, 60)>>

C4_Witness ==
    /\ pc = "toc_done"
    /\ toc_chapters = ExampleEntries
    /\ offset = 16
    /\ total_pages = 60
    /\ Len(chapter_ranges) = 2

\* the positions of chapter_titles whose title has no bookmark
AbsentPositions ==
    {k \in 1..Len(chapter_titles) : ~HasBookmark(bookmarks, chapter_titles[k])}

AbsentHasNoOtherEffect ==
    /\ \A k \in AbsentPositions :
           chapter_ranges =
               get_chapter_page_ranges(bookmarks, RemoveAt(chapter_titles, k),
                                       total_pages).ranges
    /\ LET Absent(t) == ~HasBookmark(bookmarks, t)
       IN  warnings = SelectSeq(chapter_titles, Absent)
    /\ \A i \in 1..Len(chapter_ranges) :
           HasBookmark(bookmarks, chapter_ranges[i].title)

\* the result had the absent title resolved to page p
ResolvedVariant(k, p) ==
    get_chapter_page_ranges(Append(bookmarks, Bookmark(chapter_titles[k], p)),
                            chapter_titles, total_pages).ranges

\* C5 as claimed: an absent title gives a warning and no range, the result
\* equals the result for the list without it, and the result is shorter by
\* exactly one than for the same list where the title resolved.
C5_AbsentTitleOneShorter ==
    pc = "bookmark_done" =>
        /\ AbsentHasNoOtherEffect
        /\ \A k \in AbsentPositions : \A p \in 1..total_pages :
               Len(chapter_ranges) = Len(ResolvedVariant(k, p)) - 1

\* C5 amended: an absent title gives a warning and no range and has no other
\* effect: the result equals the result for the same list with that title
\* removed.
C5_AbsentTitleHasNoOtherEffect ==
    pc = "bookmark_done" => AbsentHasNoOtherEffect

C5_Witness ==
    /\ pc = "bookmark_done"
    /\ Len(chapter_titles) = 3
    /\ 2 \in AbsentPositions
    /\ Len(warnings) = 1
    /\ Len(chapter_ranges) = 2

----------------------------------------------------------------------------
(* The document.  A page is what the patterns of toc_utils find in its     *)
(* text: the counts and the header test of extract_toc_text, and, for the  *)
(* first block of the page, the chapter numbers n for which each pattern   *)
(* of calculate_page_offset matches.                                       *)

Page(hdr, sec, pn, kw, outl, fig, head, sec1) ==
    [has_contents_header |-> hdr,  \* 'contents' in text_lower
     section_matches |-> sec,      \* matches of \d+\.\d+(\.\d+)?
     page_num_matches |-> pn,      \* matches of \s\d{1,3}(\s|$)
     keyword_matches |-> kw,       \* toc_keywords found in text_lower
     outline |-> outl,             \* Chapter\s+Outline found
     figure |-> fig,               \* the n with Figure\s+n\.1\b found
     heading |-> head,             \* the n with ^(Chapter\s+)?n\b, 0 if none
     section1 |-> sec1]            \* the n with \bn\.1\s+\w found

BlankPage == Page(FALSE, 0, 0, 0, FALSE, {}, 0, {})
TocPage(hdr, sec, pn, kw) == Page(hdr, sec, pn, kw, FALSE, {}, 0, {})
HeadingPage(n) == Page(FALSE, 0, 0, 0, FALSE, {}, n, {})
FigureOutlinePage(n) == Page(FALSE, 0, 0, 0, TRUE, {n}, 0, {})
OutlineSectionPage(n) == Page(FALSE, 0, 0, 0, TRUE, {}, 0, {n})

Min2(a, b) == IF a <= b THEN a ELSE b
Max2(a, b) == IF a >= b THEN a ELSE b

----------------------------------------------------------------------------
(* toc_utils.calculate_page_offset                                         *)

SampledEntries == 5     \* toc_chapters[:5]
SearchFloor == 10       \* max(10, toc_page)
SearchSpan == 50        \* min(toc_page + 50, page_count)
FallbackOffset == 16    \* returned when no chapter was found
EmptyListOffset == 0    \* returned for an empty list of chapters

\* the three methods tried on one page, in the order of the code
ChapterSignal(page, chapter_num) ==
    IF chapter_num \in page.figure /\ page.outline THEN "Figure"
    ELSE IF page.heading = chapter_num THEN "Chapter"
    ELSE IF page.outline /\ chapter_num \in page.section1 THEN "Outline"
    ELSE "none"

\* for page_idx in range(search_start - 1, search_end): the 1-indexed page of
\* the first signal, 0 when the window is exhausted
RECURSIVE SearchWindow(_, _, _, _)
SearchWindow(doc, chapter_num, page_idx, search_end) ==
    IF page_idx >= search_end THEN 0
    ELSE IF ChapterSignal(doc[page_idx + 1], chapter_num) # "none"
    THEN page_idx + 1
    ELSE SearchWindow(doc, chapter_num, page_idx + 1, search_end)

\* every entry of the list is searched, not the first ones only
RECURSIVE SampleLoop_AllEntries(_, _, _, _)
SampleLoop_AllEntries(doc, entries, idx, found) ==
    IF idx >= Len(entries) THEN found
    ELSE LET ch == entries[idx + 1]
             chapter_num == idx + 1
             search_start == Max2(SearchFloor, ch.toc_page)
             search_end == Min2(ch.toc_page + SearchSpan, Len(doc))
             actual_page == SearchWindow(doc, chapter_num, search_start - 1,
                                         search_end)
         IN  SampleLoop_AllEntries(doc, entries, idx + 1,
                 IF actual_page # 0
                 THEN Append(found, actual_page - ch.toc_page)
                 ELSE found)

\* for idx, ch in enumerate(toc_chapters[:5]); found is offsets_found
RECURSIVE SampleLoop(_, _, _, _)
SampleLoop(doc, entries, idx, found) ==
    IF idx >= Min2(SampledEntries, Len(entries)) THEN found
    ELSE LET ch == entries[idx + 1]
             chapter_num == idx + 1
             search_start == Max2(SearchFloor, ch.toc_page)
             search_end == Min2(ch.toc_page + SearchSpan, Len(doc))
             actual_page == SearchWindow(doc, chapter_num, search_start - 1,
                                         search_end)
         IN  SampleLoop(doc, entries, idx + 1,
                 IF actual_page # 0
                 THEN Append(found, actual_page - ch.toc_page)
                 ELSE found)

\* the 1-indexed pages doc[page_idx].get_text() is called for in one window:
\* every page from the start of the range to the break or the end; an index
\* past the document counts as read
RECURSIVE WindowReads(_, _, _, _)
WindowReads(doc, chapter_num, page_idx, search_end) ==
    IF page_idx >= search_end THEN {}
    ELSE {page_idx + 1}
         \cup IF page_idx + 1 \in DOMAIN doc
                  /\ ChapterSignal(doc[page_idx + 1], chapter_num) # "none"
              THEN {}
              ELSE WindowReads(doc, chapter_num, page_idx + 1, search_end)

\* the pages read by the whole call; none before the empty-list return
PagesRead(doc, entries) ==
    UNION {LET ch == entries[idx + 1]
           IN  WindowReads(doc, idx + 1,
                           Max2(SearchFloor, ch.toc_page) - 1,
                           Min2(ch.toc_page + SearchSpan, Len(doc))) :
           idx \in 0..(Min2(SampledEntries, Len(entries)) - 1)}

\* Counter(offsets_found): the distinct values in insertion order, counted
RECURSIVE CounterOf(_, _, _)
CounterOf(s, k, items) ==
    IF k > Len(s) THEN items
    ELSE CounterOf(s, k + 1,
             IF \E n \in 1..Len(items) : items[n].key = s[k]
             THEN [n \in 1..Len(items) |->
                      IF items[n].key = s[k]
                      THEN [items[n] EXCEPT !.count = @ + 1]
                      ELSE items[n]]
             ELSE Append(items, [key |-> s[k], count |-> 1]))

\* a tie goes to the item met last
RECURSIVE MaxByCount_LastWins(_, _, _)
MaxByCount_LastWins(items, k, best) ==
    IF k > Len(items) THEN best
    ELSE MaxByCount_LastWins(items, k + 1,
             IF items[k].count >= best.count THEN items[k] ELSE best)

\* most_common(1) is max(items, key=count): the first item of maximal count
RECURSIVE MaxByCount(_, _, _)
MaxByCount(items, k, best) ==
    IF k > Len(items) THEN best
    ELSE MaxByCount(items, k + 1,
             IF items[k].count > best.count THEN items[k] ELSE best)

most_common(s) ==
    LET items == CounterOf(s, 1, <<>>)
    IN  MaxByCount(items, 2, items[1]).key

calculate_page_offset(doc, entries) ==
    IF entries = <<>>
    THEN [offset |-> EmptyListOffset, offsets_found |-> <<>>]
    ELSE LET found == SampleLoop(doc, entries, 0, <<>>)
         IN  [offset |-> IF found # <<>> THEN most_common(found)
                         ELSE FallbackOffset,
              offsets_found |-> found]

----------------------------------------------------------------------------
(* Specification of the Offset Resolver: one call on a document whose      *)
(* pages below the search floor are alike and whose later pages vary, and  *)
(* on a document whose chapters lie 16, 16 and 17 pages after their        *)
(* printed page numbers.                                                   *)

FrontKinds == {BlankPage, HeadingPage(1)}

BodyKinds == {BlankPage, HeadingPage(1), HeadingPage(2), HeadingPage(3),
              FigureOutlinePage(1), OutlineSectionPage(2)}

ResolverDocs ==
    {[i \in 1..(SearchFloor - 1) |-> f] \o body :
        f \in FrontKinds, body \in SeqsUpTo(BodyKinds, MaxBodyPages)}

ResolverEntries ==
    {TocEntry("1 Intro", p) : p \in {0} \cup SearchFloor..(SearchFloor + MaxTocAhead)}

\* lists longer than the sample, all entries printed on the same page
WindowKinds == {BlankPage, HeadingPage(1), HeadingPage(SampledEntries),
                HeadingPage(SampledEntries + 1)}

WindowDocs ==
    {[i \in 1..(SearchFloor - 1) |-> BlankPage] \o body :
        body \in SeqsUpTo(WindowKinds, MaxBodyPages)}

LongLists ==
    {[k \in 1..n |-> TocEntry("1 Intro", p)] :
        n \in SampledEntries..(SampledEntries + MaxExtraEntries),
        p \in {0} \cup SearchFloor..(SearchFloor + MaxTocAhead)}

\* documents about as long as the search span with one chapter heading
SpanDocs ==
    {[i \in 1..n |-> IF i = h THEN HeadingPage(1) ELSE BlankPage] :
        n \in SearchSpan..(SearchSpan + MaxPastWindow),
        h \in SearchFloor..(SearchSpan + MaxPastWindow)}

SpanEntries == {<<TocEntry("1 Intro", p)>> : p \in 0..MaxPastWindow}

ExampleResolverDoc ==
    [i \in 1..57 |-> IF i = 17 THEN HeadingPage(1)
                     ELSE IF i = 36 THEN HeadingPage(2)
                     ELSE IF i = 57 THEN HeadingPage(3)
                     ELSE BlankPage]

ExampleResolverEntries ==
    <<TocEntry("1 Intro", 1), TocEntry("2 Methods", 20), TocEntry("3 Results", 40)>>

InitResolver ==
    /\ pc = "offset_input"
    /\ \/ /\ pages \in ResolverDocs
          /\ toc_chapters \in SeqsUpTo(ResolverEntries, MaxResolverEntries)
       \/ /\ pages = ExampleResolverDoc
          /\ toc_chapters = ExampleResolverEntries
       \/ /\ pages \in WindowDocs
          /\ toc_chapters \in LongLists
       \/ /\ pages \in SpanDocs
          /\ toc_chapters \in SpanEntries
    /\ total_pages = Len(pages)
    /\ offset = 0
    /\ offsets_found = <<>>
    /\ bookmarks = <<>>
    /\ chapter_titles = <<>>
    /\ chapter_ranges = <<>>
    /\ warnings = <<>>
    /\ max_pages = 0
    /\ toc_text = <<>>
    /\ toc_start_page = 0
    /\ CliIdle
    /\ pages_read = {}
    /\ AuxIdle

ResolveOffset ==
    /\ pc = "offset_input"
    /\ LET r == calculate_page_offset(pages, toc_chapters)
       IN  /\ offset' = r.offset
           /\ offsets_found' = r.offsets_found
    /\ pages_read' = PagesRead(pages, toc_chapters)
    /\ pc' = "offset_done"
    /\ UNCHANGED <<bookmarks, chapter_titles, toc_chapters, total_pages,
                   chapter_ranges, warnings, pages, locatorVars, cliVars,
                   auxVars>>

NextResolver == ResolveOffset

SpecResolver == InitResolver /\ [][NextResolver]_vars

----------------------------------------------------------------------------
(* Properties of the Offset Resolver.                                      *)

Occurrences(s, v) == Cardinality({i \in 1..Len(s) : s[i] = v})

FirstIndex(s, v) == Min({i \in 1..Len(s) : s[i] = v})

\* the most frequent value of s, the first-encountered one among equals
ModeOf(s) ==
    CHOOSE v \in {s[i] : i \in 1..Len(s)} :
        \A w \in {s[i] : i \in 1..Len(s)} :
            \/ Occurrences(s, v) > Occurrences(s, w)
            \/ /\ Occurrences(s, v) = Occurrences(s, w)
               /\ FirstIndex(s, v) <= FirstIndex(s, w)

ReturnsMode ==
    /\ offsets_found # <<>> => offset = ModeOf(offsets_found)
    /\ offsets_found = <<16, 16, 17>> => offset = 16

\* C6 as claimed: the resolver returns the most frequent recorded offset,
\* ties going to the first-encountered value, and returns the fallback 16
\* whenever no offset was recorded, the empty list of entries included.
C6_ModeOrFallbackForEveryList ==
    pc = "offset_done" =>
        /\ ReturnsMode
        /\ offsets_found = <<>> => offset = 16

\* C6 amended: the resolver returns the most frequent recorded offset, ties
\* going to the first-encountered value; when no offset was recorded it
\* returns the fallback 16 for every non-empty list of entries, and 0 for
\* the empty list.
C6_ModeOrFallbackForNonEmptyList ==
    pc = "offset_done" =>
        /\ ReturnsMode
        /\ (offsets_found = <<>> /\ toc_chapters # <<>>) => offset = 16
        /\ toc_chapters = <<>> => offset = 0

C6_Witness ==
    /\ pc = "offset_done"
    /\ Len(offsets_found) = 3
    /\ offsets_found[1] # offsets_found[2]
    /\ offsets_found[3] = offsets_found[2]
    /\ offset = offsets_found[2]

----------------------------------------------------------------------------
(* toc_utils.extract_toc_text                                              *)

DefaultMaxPages == 20   \* max_pages: int = 20
TocPageCap == 15        \* len(toc_text) < 15
None == 0               \* toc_start_page = None; page numbers start at 1

\* the section-count-alone rule is missing
has_toc_pattern_NoSectionRule(page) ==
    \/ page.section_matches >= 3 /\ page.page_num_matches >= 5
    \/ page.keyword_matches >= 2 /\ page.page_num_matches >= 5

has_toc_pattern(page) ==
    \/ page.section_matches >= 3 /\ page.page_num_matches >= 5
    \/ page.keyword_matches >= 2 /\ page.page_num_matches >= 5
    \/ page.section_matches >= 5

still_toc(page) == page.section_matches >= 2 \/ page.page_num_matches >= 3

\* a page that ends the collection is skipped and the scan goes on
RECURSIVE ScanLoop_Resumes(_, _, _, _, _)
ScanLoop_Resumes(doc, limit, i, text, start) ==
    IF i >= limit THEN [toc_text |-> text, toc_start_page |-> start]
    ELSE LET page == doc[i + 1]
         IN  IF page.has_contents_header \/ has_toc_pattern(page)
             THEN ScanLoop_Resumes(doc, limit, i + 1, Append(text, i + 1),
                                   IF start = None THEN i + 1 ELSE start)
             ELSE IF start # None /\ (still_toc(page) \/ Len(text) < 3)
                     /\ Len(text) < TocPageCap
             THEN ScanLoop_Resumes(doc, limit, i + 1, Append(text, i + 1), start)
             ELSE ScanLoop_Resumes(doc, limit, i + 1, text, start)

\* for i in range(min(max_pages, doc.page_count)); text holds the page
\* number of every block appended to toc_text
RECURSIVE ScanLoop(_, _, _, _, _)
ScanLoop(doc, limit, i, text, start) ==
    IF i >= limit THEN [toc_text |-> text, toc_start_page |-> start]
    ELSE LET page == doc[i + 1]
         IN  IF page.has_contents_header \/ has_toc_pattern(page)
             THEN ScanLoop(doc, limit, i + 1, Append(text, i + 1),
                           IF start = None THEN i + 1 ELSE start)
             ELSE IF start # None
             THEN IF still_toc(page) \/ Len(text) < 3
                  THEN IF Len(text) < TocPageCap
                       THEN ScanLoop(doc, limit, i + 1, Append(text, i + 1), start)
                       ELSE [toc_text |-> text, toc_start_page |-> start]
                  ELSE [toc_text |-> text, toc_start_page |-> start]
             ELSE ScanLoop(doc, limit, i + 1, text, start)

extract_toc_text(doc, limit) ==
    LET r == ScanLoop(doc, Min2(limit, Len(doc)), 0, <<>>, None)
    IN  [toc_text |-> r.toc_text,
         toc_start_page |-> IF r.toc_start_page = None THEN 1
                            ELSE r.toc_start_page]

----------------------------------------------------------------------------
(* Specification of the TOC Locator: one call on a short document whose    *)
(* pages take every combination of signal counts around the thresholds,    *)
(* or on a document of up to three runs of like pages that is longer than  *)
(* the collection cap.                                                     *)

RichPages ==
    {TocPage(h, s, p, k) : h \in BOOLEAN, s \in {0, 2, 3, 5, 6},
                           p \in {0, 3, 4, 5}, k \in {0, 1, 2}}

RunKinds == {TocPage(TRUE, 0, 0, 0), TocPage(FALSE, 2, 0, 0), BlankPage}

MaxDocPages == TocPageCap + MaxExtraPages

RunDocs ==
    {[i \in 1..n |-> IF i <= a THEN k1 ELSE IF i <= b THEN k2 ELSE k3] :
        <<a, b, n>> \in {t \in (0..MaxDocPages) \X (0..MaxDocPages) \X (0..MaxDocPages) :
                            t[1] <= t[2] /\ t[2] <= t[3]},
        <<k1, k2, k3>> \in RunKinds \X RunKinds \X RunKinds}

LocatorDocs == SeqsUpTo(RichPages, MaxRichPages) \cup RunDocs

ScanLimits == 0..(MaxDocPages + 1) \cup {DefaultMaxPages}

InitLocator ==
    /\ pc = "locator_input"
    /\ pages \in LocatorDocs
    /\ max_pages \in ScanLimits
    /\ total_pages = Len(pages)
    /\ toc_text = <<>>
    /\ toc_start_page = None
    /\ offsets_found = <<>>
    /\ offset = 0
    /\ toc_chapters = <<>>
    /\ bookmarks = <<>>
    /\ chapter_titles = <<>>
    /\ chapter_ranges = <<>>
    /\ warnings = <<>>
    /\ CliIdle
    /\ pages_read = {}
    /\ AuxIdle

LocateToc ==
    /\ pc = "locator_input"
    /\ LET r == extract_toc_text(pages, max_pages)
       IN  /\ toc_text' = r.toc_text
           /\ toc_start_page' = r.toc_start_page
    /\ pc' = "locator_done"
    /\ UNCHANGED <<rangeVars, pages, max_pages, offsets_found, cliVars,
                   pages_read, auxVars>>

NextLocator == LocateToc

SpecLocator == InitLocator /\ [][NextLocator]_vars

----------------------------------------------------------------------------
(* Properties of the TOC Locator.                                          *)

\* the classification of a page as TOC, as the documentation states it
ClassifiedAsToc(page) ==
    \/ page.has_contents_header
    \/ page.section_matches >= 3 /\ page.page_num_matches >= 5
    \/ page.keyword_matches >= 2 /\ page.page_num_matches >= 5
    \/ page.section_matches >= 5

ScannedPages == 1..Min2(max_pages, Len(pages))

ClassifiedPages == {i \in ScannedPages : ClassifiedAsToc(pages[i])}

\* C7: the start page is the 1-indexed number of the first scanned page
\* that has a contents header, or sections >= 3 and page numbers >= 5, or
\* keywords >= 2 and page numbers >= 5, or sections >= 5 (so a page with a
\* header, or with 6 sections and nothing else, starts the TOC if no earlier
\* page did); if no scanned page is so classified the text is empty and the
\* start page is 1.
C7_StartIsFirstClassifiedPage ==
    pc = "locator_done" =>
        IF ClassifiedPages = {}
        THEN toc_text = <<>> /\ toc_start_page = 1
        ELSE /\ toc_start_page = Min(ClassifiedPages)
             /\ toc_text # <<>>
             /\ toc_text[1] = toc_start_page

C7_Witness ==
    /\ pc = "locator_done"
    /\ Len(pages) = 1
    /\ pages[1] = TocPage(FALSE, 6, 0, 0)
    /\ toc_start_page = 1
    /\ toc_text = <<1>>

\* C8: whatever the document and the scan limit, the returned text holds at
\* most 15 pages.
C8_AtMostFifteenPagesCollected ==
    pc = "locator_done" => Len(toc_text) <= 15

----------------------------------------------------------------------------
(* cli.main and the two pipelines it drives.  A run is the record of what  *)
(* the process has done so far; each step of the code maps a run to the    *)
(* run after it.                                                           *)

ClassifierParams == 3      \* get_primary_chapters_from_ai(bookmarks, api_key, base_url)
ClassifierArgsPassed == 4  \* (bookmarks, api_key, api_url, model)
ParserParams == 3          \* parse_toc_with_ai(toc_text, api_key, base_url)
ParserArgsPassed == 4      \* (toc_text, api_key, api_url, model)

\* a call with positional arguments only, to a function without defaults
\* or *args, binds exactly when the counts agree; otherwise TypeError
CallAccepted(passed, params) == passed = params

Called(r, f) == [r EXCEPT !.calls = Append(@, f)]

\* print(line); sys.exit(status), and the return from main (status 0)
Exit(r, status, line) ==
    [r EXCEPT !.exit_status = status, !.printed = Append(@, line)]

\* an exception nothing catches: the interpreter prints the traceback and
\* exits with status 1
Uncaught(r, exc) == Exit(r, 1, exc)

Writers == {"split_pdf_by_chapters", "add_bookmarks_to_pdf"}

\* an empty TOC text is taken for text
TocNotFound_Never(text) == FALSE

\* if not toc_text
TocNotFound(text) == text = <<>>

\* main, from the check of chapter_ranges to the end
MainTail(r, a) ==
    IF r.chapter_ranges = <<>>
    THEN Exit(r, 1, "Error: Could not determine page ranges for chapters")
    ELSE IF a.add_bookmarks
    THEN Exit(Called(r, "add_bookmarks_to_pdf"), 0, "Done! Created bookmarked PDF")
    ELSE Exit(Called(r, "split_pdf_by_chapters"), 0, "Done! Created chapter PDF files")

\* process_with_bookmarks, then the rest of main when it returns; reply is
\* what the external classifier answers
process_with_bookmarks(r, a, bms, total, reply) ==
    IF a.list_bookmarks
    THEN Exit(Called(r, "format_bookmarks_for_ai"), 0, "Bookmark structure:")
    ELSE IF ~CallAccepted(ClassifierArgsPassed, ClassifierParams)
    THEN Uncaught(r, "Traceback: TypeError")
    ELSE LET r1 == Called(r, "get_primary_chapters_from_ai")
         IN  IF reply = <<>>
             THEN Exit(r1, 1, "Error: Could not identify any primary chapters")
             ELSE LET built == get_chapter_page_ranges(bms, reply, total)
                  IN  MainTail([Called(r1, "get_chapter_page_ranges")
                                   EXCEPT !.chapter_ranges = built.ranges,
                                          !.warnings = built.warnings], a)

\* process_without_bookmarks, then the rest of main when it returns; reply
\* is what the external parser answers
process_without_bookmarks(r, a, doc, total, reply) ==
    LET toc == extract_toc_text(doc, DefaultMaxPages)
        r1 == [Called(r, "extract_toc_text")
                  EXCEPT !.toc_text = toc.toc_text,
                         !.toc_start_page = toc.toc_start_page]
    IN  IF a.list_bookmarks
        THEN Exit(r1, 0, "TOC text extracted starting from PDF page")
        ELSE IF TocNotFound(toc.toc_text)
        THEN Exit(r1, 1, "Error: Could not find Table of Contents in PDF")
        ELSE IF ~CallAccepted(ParserArgsPassed, ParserParams)
        THEN Uncaught(r1, "Traceback: TypeError")
        ELSE LET r2 == Called(r1, "parse_toc_with_ai")
             IN  IF reply = <<>>
                 THEN Exit(r2, 1, "Error: Could not parse chapters from TOC")
                 ELSE LET res == calculate_page_offset(doc, reply)
                          r3 == [Called(r2, "calculate_page_offset")
                                    EXCEPT !.offset = res.offset,
                                           !.offsets_found = res.offsets_found]
                      IN  MainTail([Called(r3, "convert_toc_to_chapter_ranges")
                                       EXCEPT !.chapter_ranges =
                                           convert_toc_to_chapter_ranges(
                                               reply, res.offset, total)], a)

----------------------------------------------------------------------------
(* Specification of the command line: one run of main on a command line,   *)
(* a document and the replies the external classifier and parser would     *)
(* give for it.                                                            *)

CommandLines ==
    [list_bookmarks : BOOLEAN, add_bookmarks : BOOLEAN, api_key : BOOLEAN,
     exists : BOOLEAN, is_pdf : BOOLEAN]

CliBookmarkLists ==
    SeqsUpTo({Bookmark("A", 1), Bookmark("B", 2)}, MaxCliBookmarks)

CliDocs ==
    SeqsUpTo({TocPage(TRUE, 0, 0, 0), BlankPage}, MaxCliPages) \ {<<>>}

ClassifierReplies == {<<>>, <<"A">>, <<"C">>, <<"A", "B">>}

ParserReplies == {<<>>, <<TocEntry("1 Intro", 1)>>, ExampleEntries}

InitCli ==
    /\ pc = "main"
    /\ args \in CommandLines
    /\ bookmarks \in CliBookmarkLists
    /\ pages \in CliDocs
    /\ chapter_titles \in ClassifierReplies
    /\ toc_chapters \in ParserReplies
    /\ total_pages = Len(pages)
    /\ exit_status = -1
    /\ calls = <<>>
    /\ printed = <<>>
    /\ chapter_ranges = <<>>
    /\ warnings = <<>>
    /\ offset = 0
    /\ offsets_found = <<>>
    /\ max_pages = DefaultMaxPages
    /\ toc_text = <<>>
    /\ toc_start_page = None
    /\ pages_read = {}
    /\ AuxIdle

Run ==
    [exit_status |-> exit_status, calls |-> calls, printed |-> printed,
     chapter_ranges |-> chapter_ranges, warnings |-> warnings,
     toc_text |-> toc_text, toc_start_page |-> toc_start_page,
     offset |-> offset, offsets_found |-> offsets_found]

\* the run becomes r; the process has exited when r carries a status
Becomes(r, next) ==
    /\ exit_status' = r.exit_status
    /\ calls' = r.calls
    /\ printed' = r.printed
    /\ chapter_ranges' = r.chapter_ranges
    /\ warnings' = r.warnings
    /\ toc_text' = r.toc_text
    /\ toc_start_page' = r.toc_start_page
    /\ offset' = r.offset
    /\ offsets_found' = r.offsets_found
    /\ pc' = IF r.exit_status = -1 THEN next ELSE "exited"
    /\ UNCHANGED <<args, bookmarks, pages, chapter_titles, toc_chapters,
                   total_pages, max_pages, pages_read, auxVars>>

\* main, up to the validation of the input file
ValidateArguments ==
    /\ pc = "main"
    /\ Becomes(IF ~args.list_bookmarks /\ ~args.api_key
               THEN Exit(Run, 1, "Error: API key required")
               ELSE IF ~args.exists
               THEN Exit(Run, 1, "Error: File not found")
               ELSE IF ~args.is_pdf
               THEN Exit(Run, 1, "Error: File must be a PDF")
               ELSE Run,
               "extract")

\* bookmarks = extract_bookmarks(...); total_pages = get_total_pages(...)
ExtractBookmarks ==
    /\ pc = "extract"
    /\ Becomes(Called(Called(Run, "extract_bookmarks"), "get_total_pages"),
               "process")

ProcessWithBookmarks ==
    /\ pc = "process"
    /\ bookmarks # <<>>
    /\ Becomes(process_with_bookmarks(Run, args, bookmarks, total_pages,
                                      chapter_titles), "exited")

ProcessWithoutBookmarks ==
    /\ pc = "process"
    /\ bookmarks = <<>>
    /\ Becomes(process_without_bookmarks(Run, args, pages, total_pages,
                                         toc_chapters), "exited")

NextCli ==
    \/ ValidateArguments
    \/ ExtractBookmarks
    \/ ProcessWithBookmarks
    \/ ProcessWithoutBookmarks

SpecCli == InitCli /\ [][NextCli]_vars

----------------------------------------------------------------------------
(* Properties of the command line.                                         *)

Entered(f) == \E i \in 1..Len(calls) : calls[i] = f

\* the error lines of cli.py
ErrorLines ==
    {"Error: API key required", "Error: File not found",
     "Error: File must be a PDF",
     "Error: Could not identify any primary chapters",
     "Error: Could not find Table of Contents in PDF",
     "Error: Could not parse chapters from TOC",
     "Error: Could not determine page ranges for chapters"}

ErrorPrinted == \E i \in 1..Len(printed) : printed[i] \in ErrorLines

WriterInvoked == \E f \in Writers : Entered(f)

\* no chapter was resolved: the TOC text came back empty, the classifier or
\* the parser returned no chapters, or the Range Builder returned no range
TocTextEmpty == Entered("extract_toc_text") /\ toc_text = <<>>

NoChaptersReturned ==
    \/ Entered("get_primary_chapters_from_ai") /\ chapter_titles = <<>>
    \/ Entered("parse_toc_with_ai") /\ toc_chapters = <<>>

NoRangeBuilt ==
    /\ Entered("get_chapter_page_ranges") \/ Entered("convert_toc_to_chapter_ranges")
    /\ chapter_ranges = <<>>

ZeroChaptersResolved == TocTextEmpty \/ NoChaptersReturned \/ NoRangeBuilt

FatalWithoutOutput ==
    /\ exit_status # 0
    /\ ErrorPrinted
    /\ ~WriterInvoked

\* C9 as claimed: whenever the TOC text is empty, the classifier / parser
\* returns no chapters or the Range Builder returns no range, the run prints
\* an error, exits with non-zero status and invokes no output writer.
C9_ZeroChaptersAlwaysFatal ==
    (pc = "exited" /\ ZeroChaptersResolved) => FatalWithoutOutput

\* C9 amended: on a run that is not a --list-bookmarks run, whenever the TOC
\* text is empty, the classifier / parser returns no chapters or the Range
\* Builder returns no range, the run prints an error, exits with non-zero
\* status and invokes no output writer.
C9_ZeroChaptersFatalUnlessListing ==
    (pc = "exited" /\ ~args.list_bookmarks /\ ZeroChaptersResolved)
        => FatalWithoutOutput

C9_Witness ==
    /\ pc = "exited"
    /\ ~args.list_bookmarks
    /\ TocTextEmpty
    /\ exit_status = 1
    /\ printed = <<"Error: Could not find Table of Contents in PDF">>

IsPrefix(s, t) == Len(s) <= Len(t) /\ \A i \in 1..Len(s) : s[i] = t[i]

\* C10: on a non-list run over a document with bookmarks the pipeline
\* extracts the bookmarks, then enters the classifier, then, when the
\* classifier returns titles, enters the Range Builder with them, whose
\* ranges reach an output writer; on a document without bookmarks whose TOC
\* was found the parser is entered likewise.
C10_PipelineReachesRangeBuilder ==
    (pc = "exited" /\ ~args.list_bookmarks /\ Entered("extract_bookmarks")) =>
        /\ bookmarks # <<>> =>
              /\ IsPrefix(<<"extract_bookmarks", "get_total_pages",
                            "get_primary_chapters_from_ai">>, calls)
              /\ chapter_titles # <<>> =>
                    /\ IsPrefix(<<"extract_bookmarks", "get_total_pages",
                                  "get_primary_chapters_from_ai",
                                  "get_chapter_page_ranges">>, calls)
                    /\ chapter_ranges =
                           get_chapter_page_ranges(bookmarks, chapter_titles,
                                                   total_pages).ranges
                    /\ chapter_ranges # <<>> => WriterInvoked
        /\ (bookmarks = <<>> /\ toc_text # <<>>) => Entered("parse_toc_with_ai")

----------------------------------------------------------------------------
(* ai_utils: what the two functions do with the reply of the service.  A   *)
(* reply is the list of its lines, a line the list of its characters; the  *)
(* line FenceLine stands for a line made of a code fence.                  *)

Whitespace == {" ", "\t"}

FenceLine == <<"fence">>

RECURSIVE LStrip(_, _)
LStrip(line, chars) ==
    IF line # <<>> /\ Head(line) \in chars THEN LStrip(Tail(line), chars)
    ELSE line

RECURSIVE RStrip(_, _)
RStrip(line, chars) ==
    IF line # <<>> /\ line[Len(line)] \in chars
    THEN RStrip(SubSeq(line, 1, Len(line) - 1), chars)
    ELSE line

\* str.strip(chars)
Strip(line, chars) == RStrip(LStrip(line, chars), chars)

\* line.strip().strip("-").strip("*").strip('"').strip()
CleanLine(line) ==
    Strip(Strip(Strip(Strip(Strip(line, Whitespace), {"-"}), {"*"}), {"\""}),
          Whitespace)

IsBlank(line) == Strip(line, Whitespace) = <<>>

\* message.content.strip(), and the \s* around the group of the fence
\* pattern: the blank lines at both ends go
RECURSIVE TrimBlank(_)
TrimBlank(text) ==
    IF text = <<>> THEN text
    ELSE IF IsBlank(Head(text)) THEN TrimBlank(Tail(text))
    ELSE IF IsBlank(text[Len(text)]) THEN TrimBlank(SubSeq(text, 1, Len(text) - 1))
    ELSE text

FencePositions(text) == {i \in 1..Len(text) : text[i] = FenceLine}

\* if the text holds a fence: the group of the first match of the pattern
\* fence, optional "json", whitespace, (anything, lazily), whitespace, fence
\* replaces the text; no match, no change
FencedBlockStripped(text) ==
    IF Cardinality(FencePositions(text)) >= 2
    THEN LET first == Min(FencePositions(text))
             second == Min(FencePositions(text) \ {first})
         IN  TrimBlank(SubSeq(text, first + 1, second - 1))
    ELSE text

\* the JSON documents of the model, each with what json.loads makes of it:
\* a list of strings, the empty list, a list of objects, a list of objects
\* whose toc_page is no number, and a string
JsonDocuments ==
    {[text |-> <<<<"[", "\"", "A", "\"", ",", "\"", "B", "\"", "]">>>>,
      kind |-> "list_of_strings", strs |-> <<<<"A">>, <<"B">>>>,
      entries |-> <<>>],
     [text |-> <<<<"[", "]">>>>,
      kind |-> "list_of_objects", strs |-> <<>>, entries |-> <<>>],
     [text |-> <<<<"[", "{", "1", "}", "]">>>>,
      kind |-> "list_of_objects", strs |-> <<<<"{", "1", "}">>>>,
      entries |-> <<TocEntry("1 Intro", 1)>>],
     [text |-> <<<<"[", "{", "x", "}", "]">>>>,
      kind |-> "list_with_bad_page", strs |-> <<<<"{", "x", "}">>>>,
      entries |-> <<>>],
     [text |-> <<<<"\"", "A", "\"">>>>,
      kind |-> "string", strs |-> <<>>, entries |-> <<>>]}

ListKinds == {"list_of_strings", "list_of_objects", "list_with_bad_page"}

\* json.loads: the document, or JSONDecodeError for any other text
json_loads(text) ==
    IF \E d \in JsonDocuments : d.text = text
    THEN CHOOSE d \in JsonDocuments : d.text = text
    ELSE [text |-> text, kind |-> "JSONDecodeError", strs |-> <<>>,
          entries |-> <<>>]

\* every non-empty cleaned line is kept, a bookmark title or not
RECURSIVE FallbackScan_KeepsAll(_, _, _, _)
FallbackScan_KeepsAll(text, bms, k, chapters) ==
    IF k > Len(text) THEN chapters
    ELSE FallbackScan_KeepsAll(text, bms, k + 1,
             IF CleanLine(text[k]) # <<>>
             THEN Append(chapters, CleanLine(text[k]))
             ELSE chapters)

\* for line in response_text.split("\n")
RECURSIVE FallbackScan(_, _, _, _)
FallbackScan(text, bms, k, chapters) ==
    IF k > Len(text) THEN chapters
    ELSE LET line == CleanLine(text[k])
         IN  FallbackScan(text, bms, k + 1,
                 IF line # <<>> /\ \E n \in 1..Len(bms) : bms[n].title = line
                 THEN Append(chapters, line)
                 ELSE chapters)

FallbackWarning == "Warning: Could not parse AI response as JSON, attempting fallback extraction"
ParseWarning == "Warning: Could not parse AI response as JSON"

\* get_primary_chapters_from_ai, from the reply on
get_primary_chapters_from_ai(bms, content) ==
    LET response_text == FencedBlockStripped(TrimBlank(content))
        chapters == json_loads(response_text)
    IN  IF chapters.kind \in ListKinds
        THEN [result |-> chapters.strs, warnings |-> <<>>, raised |-> "none"]
        ELSE [result |-> FallbackScan(response_text, bms, 1, <<>>),
              warnings |-> <<FallbackWarning>>, raised |-> "none"]

\* the except clause of parse_toc_with_ai
ParserCatches == {"JSONDecodeError", "ValueError", "TypeError"}

\* the exception the try block of parse_toc_with_ai ends with
ParserException(chapters) ==
    IF chapters.kind = "JSONDecodeError" THEN "JSONDecodeError"
    ELSE IF chapters.kind = "list_of_strings" THEN "AttributeError"
    ELSE IF chapters.kind = "list_with_bad_page" THEN "ValueError"
    ELSE "none"

\* the exception is swallowed without the warning
ParserWarnings_Silent(exc) == <<>>

\* print(f"Warning: Could not parse AI response as JSON: {e}")
ParserWarnings(exc) == IF exc \in ParserCatches THEN <<ParseWarning>> ELSE <<>>

\* parse_toc_with_ai, from the reply on
parse_toc_with_ai(content) ==
    LET response_text == FencedBlockStripped(TrimBlank(content))
        chapters == json_loads(response_text)
        exc == ParserException(chapters)
    IN  IF exc = "none" /\ chapters.kind \in ListKinds
        THEN [result |-> chapters.entries, warnings |-> <<>>, raised |-> "none"]
        ELSE [result |-> <<>>, warnings |-> ParserWarnings(exc),
              raised |-> IF exc \in ParserCatches THEN "none" ELSE exc]

----------------------------------------------------------------------------
(* Specification of the AI reply handling: one call of either function on  *)
(* a reply that is lines of decorated titles, bare or inside a fenced      *)
(* block, or one of the JSON documents.                                    *)

LinePrefixes == {<<>>, <<"-", " ">>, <<"*">>, <<"\"">>}
LineCores == {<<"A">>, <<"B">>, <<"C">>}
LineSuffixes == {<<>>, <<"\"">>, <<"\"", ",">>}

ReplyLines ==
    {pre \o core \o suf :
        pre \in LinePrefixes, core \in LineCores, suf \in LineSuffixes}
    \cup {<<>>}

PlainReplies ==
    SeqsUpTo(ReplyLines, MaxResponseLines) \cup {d.text : d \in JsonDocuments}

Replies ==
    PlainReplies
    \cup {<<FenceLine>> \o t \o <<FenceLine>> : t \in PlainReplies}
    \cup {<<FenceLine>> \o t : t \in PlainReplies}

AiBookmarkLists ==
    {<<>>, <<Bookmark(<<"A">>, 1)>>,
     <<Bookmark(<<"B">>, 1), Bookmark(<<"A">>, 2)>>}

InitAi ==
    /\ response \in Replies
    /\ \/ pc = "classifier_input" /\ bookmarks \in AiBookmarkLists
       \/ pc = "parser_input" /\ bookmarks = <<>>
    /\ chapter_titles = <<>>
    /\ toc_chapters = <<>>
    /\ warnings = <<>>
    /\ raised = "none"
    /\ offset = 0
    /\ total_pages = 0
    /\ chapter_ranges = <<>>
    /\ DocumentIdle
    /\ CliIdle
    /\ pages_read = {}
    /\ operation = <<>>
    /\ open_handles = {}
    /\ name = <<>>
    /\ sanitized = <<>>

ClassifyBookmarks ==
    /\ pc = "classifier_input"
    /\ LET r == get_primary_chapters_from_ai(bookmarks, response)
       IN  /\ chapter_titles' = r.result
           /\ warnings' = r.warnings
           /\ raised' = r.raised
    /\ pc' = "classifier_done"
    /\ UNCHANGED <<bookmarks, toc_chapters, offset, total_pages, chapter_ranges,
                   pages, locatorVars, offsets_found, cliVars, pages_read,
                   response, operation, open_handles, name, sanitized>>

ParseTocReply ==
    /\ pc = "parser_input"
    /\ LET r == parse_toc_with_ai(response)
       IN  /\ toc_chapters' = r.result
           /\ warnings' = r.warnings
           /\ raised' = r.raised
    /\ pc' = "parser_done"
    /\ UNCHANGED <<bookmarks, chapter_titles, offset, total_pages, chapter_ranges,
                   pages, locatorVars, offsets_found, cliVars, pages_read,
                   response, operation, open_handles, name, sanitized>>

NextAi == ClassifyBookmarks \/ ParseTocReply

SpecAi == InitAi /\ [][NextAi]_vars

----------------------------------------------------------------------------
(* Properties of the AI reply handling.                                    *)

\* the reply is not valid JSON even after fenced-block stripping
MalformedResponse ==
    json_loads(FencedBlockStripped(TrimBlank(response))).kind = "JSONDecodeError"

BookmarkTitleSet == {bookmarks[n].title : n \in 1..Len(bookmarks)}

\* the cleaned lines of the stripped reply that are bookmark titles, in the
\* order of the reply
TitleLines ==
    LET text == FencedBlockStripped(TrimBlank(response))
        IsTitle(line) == line \in BookmarkTitleSet
    IN  SelectSeq([k \in 1..Len(text) |-> CleanLine(text[k])], IsTitle)

\* C11: when the reply is not valid JSON even after fenced-block stripping,
\* the classifier runs the fallback line scan and returns only lines that
\* equal a bookmark title, in the order of the reply; the TOC parser returns
\* the empty list with a warning and no fallback; no exception leaves
\* either function.
C11_MalformedResponseHandled ==
    MalformedResponse =>
        /\ pc = "classifier_done" =>
              /\ chapter_titles = TitleLines
              /\ \A n \in 1..Len(chapter_titles) :
                     chapter_titles[n] \in BookmarkTitleSet
              /\ warnings = <<FallbackWarning>>
              /\ raised = "none"
        /\ pc = "parser_done" =>
              /\ toc_chapters = <<>>
              /\ warnings = <<ParseWarning>>
              /\ raised = "none"

C11_Witness ==
    /\ pc = "classifier_done"
    /\ MalformedResponse
    /\ response = <<FenceLine, <<"-", " ", "B">>, <<"\"", "A", "\"">>, FenceLine>>
    /\ chapter_titles = <<<<"B">>, <<"A">>>>

----------------------------------------------------------------------------
(* Document handles.  Every operation that opens the document is the list  *)
(* of its library calls in program order; a call returns or raises, and an *)
(* exception leaves the operation at once: no operation has a try/finally  *)
(* or a context manager around its handle.                                 *)

HandleOperations ==
    {"extract_bookmarks", "get_total_pages", "extract_toc_text",
     "calculate_page_offset", "split_pdf_by_chapters", "add_bookmarks_to_pdf"}

RECURSIVE Repeat(_, _)
Repeat(body, n) == IF n = 0 THEN <<>> ELSE body \o Repeat(body, n - 1)

\* the library calls of an operation that reads n pages or writes n chapter
\* files; calculate_page_offset returns before opening on an empty list
LibraryCalls(op, n, entries) ==
    CASE op = "extract_bookmarks" -> <<"fitz.open", "get_toc", "doc.close">>
      [] op = "get_total_pages" -> <<"fitz.open", "page_count", "doc.close">>
      [] op = "extract_toc_text" ->
            <<"fitz.open">> \o Repeat(<<"get_text">>, n) \o <<"doc.close">>
      [] op = "calculate_page_offset" ->
            IF entries = <<>> THEN <<>>
            ELSE <<"fitz.open">> \o Repeat(<<"get_text">>, n) \o <<"doc.close">>
      [] op = "split_pdf_by_chapters" ->
            <<"fitz.open">>
            \o Repeat(<<"new_doc.open", "insert_pdf", "save", "new_doc.close">>, n)
            \o <<"doc.close">>
      [] op = "add_bookmarks_to_pdf" ->
            <<"fitz.open", "set_toc", "save", "doc.close">>

\* the handle a call opens or closes
HandleOf(call) ==
    IF call \in {"fitz.open", "doc.close"} THEN "doc" ELSE "new_doc"

OpeningCalls == {"fitz.open", "new_doc.open"}
ClosingCalls == {"doc.close", "new_doc.close"}
WorkingCalls == {"get_toc", "page_count", "get_text", "insert_pdf", "save", "set_toc"}

\* the calls that can raise: opening, reading, copying and writing
RaisingCalls ==
    {"fitz.open", "new_doc.open", "get_toc", "get_text", "insert_pdf", "save",
     "set_toc"}

Operation(op, n, entries) ==
    [name |-> op, calls |-> LibraryCalls(op, n, entries), at |-> 1]

InitHandles ==
    /\ pc = "operation"
    /\ \/ /\ toc_chapters = <<>>
          /\ \E op \in {"extract_bookmarks", "get_total_pages",
                        "add_bookmarks_to_pdf", "calculate_page_offset"} :
                 operation = Operation(op, 0, toc_chapters)
       \/ /\ toc_chapters = <<>>
          /\ \E n \in 0..MaxHandlePages :
                 operation = Operation("extract_toc_text", n, toc_chapters)
       \/ /\ toc_chapters = <<TocEntry("1 Intro", 1)>>
          /\ \E n \in 0..MaxHandlePages :
                 operation = Operation("calculate_page_offset", n, toc_chapters)
       \/ /\ toc_chapters = <<>>
          /\ \E n \in 0..MaxHandleChapters :
                 operation = Operation("split_pdf_by_chapters", n, toc_chapters)
    /\ open_handles = {}
    /\ raised = "none"
    /\ bookmarks = <<>>
    /\ chapter_titles = <<>>
    /\ offset = 0
    /\ total_pages = 0
    /\ chapter_ranges = <<>>
    /\ warnings = <<>>
    /\ DocumentIdle
    /\ CliIdle
    /\ pages_read = {}
    /\ response = <<>>
    /\ name = <<>>
    /\ sanitized = <<>>

Running == pc = "operation" /\ operation.at <= Len(operation.calls)

NextCall == operation.calls[operation.at]

Advance == operation' = [operation EXCEPT !.at = @ + 1]

handleFrame ==
    <<rangeVars, pages, locatorVars, offsets_found, cliVars, pages_read,
      response, name, sanitized>>

\* fitz.open(pdf_path), fitz.open()
OpenDocument ==
    /\ Running
    /\ NextCall \in OpeningCalls
    /\ open_handles' = open_handles \cup {HandleOf(NextCall)}
    /\ Advance
    /\ UNCHANGED <<pc, raised, handleFrame>>

\* a call on an open document returns
CallReturns ==
    /\ Running
    /\ NextCall \in WorkingCalls
    /\ Advance
    /\ UNCHANGED <<pc, raised, open_handles, handleFrame>>

\* a call raises: the exception leaves the operation, no close runs
CallRaises ==
    /\ Running
    /\ NextCall \in RaisingCalls
    /\ raised' = "Exception"
    /\ pc' = "operation_raised"
    /\ UNCHANGED <<operation, open_handles, handleFrame>>

\* doc.close(), new_doc.close()
CloseDocument ==
    /\ Running
    /\ NextCall \in ClosingCalls
    /\ open_handles' = open_handles \ {HandleOf(NextCall)}
    /\ Advance
    /\ UNCHANGED <<pc, raised, handleFrame>>

\* the return statement after the last call
ReturnResult ==
    /\ pc = "operation"
    /\ operation.at > Len(operation.calls)
    /\ pc' = "operation_returned"
    /\ UNCHANGED <<operation, raised, open_handles, handleFrame>>

NextHandles ==
    OpenDocument \/ CallReturns \/ CallRaises \/ CloseDocument \/ ReturnResult

SpecHandles == InitHandles /\ [][NextHandles]_vars

----------------------------------------------------------------------------
(* Properties of the document handles.                                     *)

OperationEnded == pc \in {"operation_returned", "operation_raised"}

\* C12: every document handle opened by an operation is released when the
\* operation ends, whether it returns or raises: no operation ends with an
\* open handle.
C12_NoHandleOpenAtEnd == OperationEnded => open_handles = {}

----------------------------------------------------------------------------
(* utils.sanitize_filename, on a name as the list of its characters.       *)

NameLimit == 100

InvalidChars == {"<", ">", ":", "\"", "/", "\\", "|", "?", "*"}

\* re.sub(r'[<>:"/\\|?*]', '', name)
RemoveInvalid(text) ==
    LET Valid(c) == c \notin InvalidChars
    IN  SelectSeq(text, Valid)

\* re.sub(r'\s+', ' ', sanitized): every run of whitespace becomes one space
CollapseWhitespace(text) ==
    LET InRun(i) == i > 1 /\ text[i - 1] \in Whitespace
        marked == [i \in 1..Len(text) |->
                      IF text[i] \in Whitespace
                      THEN [char |-> " ", drop |-> InRun(i)]
                      ELSE [char |-> text[i], drop |-> FALSE]]
        Kept(m) == ~m.drop
        kept == SelectSeq(marked, Kept)
    IN  [i \in 1..Len(kept) |-> kept[i].char]

\* sanitized[:100] if len(sanitized) > 100 else sanitized
Truncate(text) ==
    IF Len(text) > NameLimit THEN SubSeq(text, 1, NameLimit) ELSE text

sanitize_filename(text) ==
    Truncate(Strip(CollapseWhitespace(RemoveInvalid(text)), Whitespace))

----------------------------------------------------------------------------
(* Specification of the file names: one call of sanitize_filename on a     *)
(* name made of a run of letters, none or about NameLimit of them, and a   *)
(* short tail of letters, whitespace and invalid characters.               *)

NameChars == {"a", " ", "\t", "*"}

RunLengths == {0} \cup ((NameLimit - MaxTail)..NameLimit)

Names ==
    {[i \in 1..n |-> "a"] \o tail :
        n \in RunLengths, tail \in SeqsUpTo(NameChars, MaxTail)}

InitSanitize ==
    /\ pc = "name_input"
    /\ name \in Names
    /\ sanitized = <<>>
    /\ bookmarks = <<>>
    /\ chapter_titles = <<>>
    /\ toc_chapters = <<>>
    /\ offset = 0
    /\ total_pages = 0
    /\ chapter_ranges = <<>>
    /\ warnings = <<>>
    /\ DocumentIdle
    /\ CliIdle
    /\ pages_read = {}
    /\ response = <<>>
    /\ raised = "none"
    /\ operation = <<>>
    /\ open_handles = {}

Sanitize ==
    /\ pc = "name_input"
    /\ sanitized' = sanitize_filename(name)
    /\ pc' = "name_done"
    /\ UNCHANGED <<rangeVars, pages, locatorVars, offsets_found, cliVars,
                   pages_read, response, raised, operation, open_handles, name>>

NextSanitize == Sanitize

SpecSanitize == InitSanitize /\ [][NextSanitize]_vars

----------------------------------------------------------------------------
(* Properties of the file names.                                           *)

\* C13: sanitize_filename is idempotent: sanitizing a sanitized name gives
\* the same name, also for names longer than the limit that are cut next
\* to whitespace.
C13_SanitizeIdempotent ==
    pc = "name_done" => sanitize_filename(sanitized) = sanitized

----------------------------------------------------------------------------
(* Properties of the search window of the Offset Resolver.                 *)

\* any of the three signals for chapter k on a page
Fires(page, k) ==
    \/ k \in page.figure /\ page.outline
    \/ page.heading = k
    \/ page.outline /\ k \in page.section1

\* the physical pages of the window of entry k on which a signal fires
FiringPages(k) ==
    {q \in Max2(SearchFloor, toc_chapters[k].toc_page)..
           Min2(toc_chapters[k].toc_page + SearchSpan, total_pages) :
        Fires(pages[q], k)}

Contributes(k) == k <= SampledEntries /\ FiringPages(k) # {}

\* one offset per contributing entry, in the order of the list
WindowOffsets ==
    LET Hit(k) == Contributes(k)
        hits == SelectSeq([k \in 1..Len(toc_chapters) |-> k], Hit)
    IN  [n \in 1..Len(hits) |->
            Min(FiringPages(hits[n])) - toc_chapters[hits[n]].toc_page]

\* C14: only the first 5 TOC entries contribute, each at most one offset;
\* the offset of entry k is p - toc_page for the lowest page p of
\* [max(10, toc_page), min(toc_page + 50, total_pages)] on which a signal
\* for chapter k fires; no page outside 1..total_pages is read.
C14_OffsetsFromSearchWindow ==
    pc = "offset_done" =>
        /\ offsets_found = WindowOffsets
        /\ Len(offsets_found) <= SampledEntries
        /\ pages_read \subseteq 1..total_pages

\* a sixth entry whose chapter heading lies in its window is not searched,
\* and of two headings of chapter 1 the lower page gives the offset
C14_Witness ==
    /\ pc = "offset_done"
    /\ Len(toc_chapters) = SampledEntries + 1
    /\ toc_chapters[1].toc_page = SearchFloor
    /\ Len(pages) = SearchFloor + 2
    /\ pages[SearchFloor] = HeadingPage(1)
    /\ pages[SearchFloor + 1] = HeadingPage(SampledEntries + 1)
    /\ pages[SearchFloor + 2] = HeadingPage(1)
    /\ offsets_found = <<0>>
    /\ pages_read = {SearchFloor, SearchFloor + 1, SearchFloor + 2}

----------------------------------------------------------------------------
(* Properties of the span collected by the TOC Locator.                    *)

LastCollected == toc_start_page + Len(toc_text) - 1

\* the page after the span is scanned, is not classified as TOC, and either
\* fails the continuation thresholds with 3 pages collected or meets the cap
StoppedAtNextPage ==
    /\ LastCollected + 1 \in ScannedPages
    /\ ~ClassifiedAsToc(pages[LastCollected + 1])
    /\ \/ Len(toc_text) >= TocPageCap
       \/ /\ Len(toc_text) >= 3
          /\ pages[LastCollected + 1].section_matches < 2
          /\ pages[LastCollected + 1].page_num_matches < 3

\* C15: the collected pages are one contiguous span of physical pages that
\* begins at the returned start page and lies within the first
\* min(max_pages, page_count) pages; after the start every page is appended
\* or ends the scan, and a page that fails the continuation thresholds is
\* still appended while fewer than 3 pages have been collected.
C15_CollectedPagesContiguous ==
    (pc = "locator_done" /\ toc_text # <<>>) =>
        /\ \A n \in 1..Len(toc_text) : toc_text[n] = toc_start_page + n - 1
        /\ \A n \in 1..Len(toc_text) : toc_text[n] \in ScannedPages
        /\ LastCollected = Min2(max_pages, Len(pages)) \/ StoppedAtNextPage

C15_Witness ==
    /\ pc = "locator_done"
    /\ Len(pages) >= 5
    /\ max_pages >= 5
    /\ pages[1] = BlankPage
    /\ pages[2] = TocPage(TRUE, 0, 0, 0)
    /\ pages[3] = BlankPage
    /\ pages[4] = BlankPage
    /\ pages[5] = BlankPage
    /\ toc_start_page = 2
    /\ toc_text = <<2, 3, 4>>

====
